---- MODULE Spec2Model ----
(***************************************************************************)
(* Model of the Crocdb API gateway (src/app.py): the flask-limiter         *)
(* configuration, the payload validator, the six routes and the error      *)
(* handlers.  Time is counted in ticks; a limiter window is a number of    *)
(* ticks and every stored counter carries its remaining time to live.      *)
(***************************************************************************)
EXTENDS Integers, Sequences, FiniteSets, TLC

\* ------------------------------------------------------------------ bounds
\* The limits '30 per 1 second' (default_limits) and '15 per hour'
\* (meta_limits) are scaled down: DefaultLimit stands for the 30, MetaLimit for
\* the 15, SecondTicks for the second and HourTicks for the hour.  The limits
\* keep their order (meta limit below default limit) and the windows theirs.
DefaultLimit == 2
MetaLimit == 1
SecondTicks == 2
HourTicks == 3
\* number of keys of an enumerated JSON object, length of a required list
MaxKeys == 2
MaxRequired == 2

\* requests of one behaviour: enough to fill a window, breach the default
\* limit MetaLimit times, be refused by the meta limit and come back
MaxRequests == 5

\* ------------------------------------------------------- program constants
DefaultMaxResults == 100
DefaultPage == 1

\* ------------------------------------------------------------ Python values
\* A value is <<type name, payload>>; the type name is type(v).__name__.
None == <<"NoneType", "None">>
PyStr(s) == <<"str", s>>
PyInt(n) == <<"int", n>>
PyBool(b) == <<"bool", b>>
PyList(s) == <<"list", s>>
PyDict(f) == <<"dict", f>>
TypeName(v) == v[1]

\* isinstance(v, t) for t in str, list, int: bool is a subclass of int.
isinstance(v, t) == TypeName(v) = t \/ (t = "int" /\ TypeName(v) = "bool")

\* JSON's own primitive kinds
JsonKind(v) ==
    CASE TypeName(v) = "str" -> "string"
      [] TypeName(v) = "int" -> "integer"
      [] TypeName(v) = "bool" -> "boolean"
      [] TypeName(v) = "list" -> "array"
      [] TypeName(v) = "dict" -> "object"
      [] OTHER -> "null"
JsonKindOf(t) ==
    CASE t = "str" -> "string" [] t = "int" -> "integer" [] OTHER -> "array"

\* str.join
RECURSIVE join(_, _)
join(sep, parts) ==
    IF parts = <<>> THEN ""
    ELSE IF Len(parts) = 1 THEN parts[1]
    ELSE parts[1] \o sep \o join(sep, Tail(parts))

\* `sub in s` for two str, over the affixes the enumerated bodies use
Affixes == {"", "not ", " json", "my "}
IsSubstring(sub, s) == \E p \in Affixes, q \in Affixes : s = p \o sub \o q

\* `field in data`: <<"ok", bool>> or <<"raise", exception name>>
contains(field, data) ==
    CASE TypeName(data) = "dict" -> <<"ok", field \in DOMAIN data[2]>>
      [] TypeName(data) = "list" ->
            <<"ok", \E i \in 1..Len(data[2]) : data[2][i] = PyStr(field)>>
      [] TypeName(data) = "str" -> <<"ok", IsSubstring(field, data[2])>>
      [] OTHER -> <<"raise", "TypeError">>

\* `data[field]` for a str field: <<"ok", value>> or <<"raise", name>>
getitem(data, field) ==
    IF TypeName(data) = "dict" THEN <<"ok", data[2][field]>>
    ELSE <<"raise", "TypeError">>

\* api.build_response: the envelope of an error payload is the payload
build_response(payload) == payload

\* ------------------------------------------------------- validate_payload
\* field_types is the dict in insertion order: a sequence of <<field, type>>.
\* Result: <<"None">>, <<"response", body>> or <<"raise", exception name>>.
RECURSIVE missing_fields_from(_, _, _)
missing_fields_from(required_fields, data, i) ==
    IF i > Len(required_fields) THEN <<"ok", <<>>>>
    ELSE LET c == contains(required_fields[i], data)
             rest == missing_fields_from(required_fields, data, i + 1)
         IN IF c[1] = "raise" THEN c
            ELSE IF rest[1] = "raise" THEN rest
            ELSE IF c[2] THEN rest
            ELSE <<"ok", <<required_fields[i]>> \o rest[2]>>

\* a validator that fails fast on the first missing field
missing_fields_first_only(required_fields, data) ==
    LET all == missing_fields_from(required_fields, data, 1)
    IN IF all[1] = "ok" /\ Len(all[2]) > 1 THEN <<"ok", <<all[2][1]>>>> ELSE all

missing_fields(required_fields, data) ==
    missing_fields_from(required_fields, data, 1)

RECURSIVE type_check(_, _, _)
type_check(field_types, data, i) ==
    IF i > Len(field_types) THEN <<"None">>
    ELSE LET field == field_types[i][1]
             expected_type == field_types[i][2]
             c == contains(field, data)
         IN IF c[1] = "raise" THEN c
            ELSE IF ~c[2] THEN type_check(field_types, data, i + 1)
            ELSE LET item == getitem(data, field)
                 IN IF item[1] = "raise" THEN item
                    ELSE IF ~isinstance(item[2], expected_type)
                    THEN <<"response", build_response(<<"error",
                            "Field \"" \o field \o "\" must be of type "
                                \o expected_type>>)>>
                    ELSE type_check(field_types, data, i + 1)

validate_payload(required_fields, data, field_types) ==
    LET missing == missing_fields(required_fields, data)
    IN IF missing[1] = "raise" THEN missing
       ELSE IF missing[2] # <<>>
       THEN <<"response", build_response(<<"error",
                "Missing required fields: " \o join(", ", missing[2])>>)>>
       ELSE IF field_types # <<>> THEN type_check(field_types, data, 1)
       ELSE <<"None">>

search_field_types ==
    << <<"search_key", "str">>, <<"platforms", "list">>, <<"regions", "list">>,
       <<"rom_id", "str">>, <<"max_results", "int">>, <<"page", "int">> >>
entry_field_types == << <<"slug", "str">> >>
entry_required_fields == <<"slug">>

\* ------------------------------------------------------------ HTTP statuses
\* http.HTTPStatus, the members the model uses
HTTPStatusPhrase ==
    [c \in {400, 404, 429, 500, 503} |->
        CASE c = 400 -> "Bad Request"
          [] c = 404 -> "Not Found"
          [] c = 429 -> "Too Many Requests"
          [] c = 500 -> "Internal Server Error"
          [] OTHER -> "Service Unavailable"]
\* HTTPStatus(code) raises ValueError unless code equals a member's value
IsHTTPStatus(code) == TypeName(code) = "int" /\ code[2] \in DOMAIN HTTPStatusPhrase

\* An exception is [name, code]: code is the value of its `code` attribute,
\* or NoAttr when it has none.
NoAttr == <<"absent", "">>
Exc(name, code) == [name |-> name, code |-> code]

\* A handler's result: a response, or an exception raised out of it.
Response(status, body) ==
    [kind |-> "response", status |-> status, body |-> body, exc |-> Exc("", NoAttr),
     handler_raised |-> FALSE]
Raise(e) ==
    [kind |-> "raise", status |-> 0, body |-> <<"none", "">>, exc |-> e,
     handler_raised |-> FALSE]

\* handle_error(e), registered for Exception
handle_error(e, debug) ==
    LET code == IF e.code = NoAttr THEN PyInt(500) ELSE e.code
    IN IF code = PyInt(500) /\ debug THEN Raise(e)
       ELSE IF ~IsHTTPStatus(code) THEN Raise(Exc("ValueError", NoAttr))
       ELSE Response(code[2], build_response(<<"error", HTTPStatusPhrase[code[2]]>>))

\* ratelimit_handler(e), registered for 429
ratelimit_handler == Response(429, build_response(<<"error", "Too Many Requests">>))

\* What Flask makes of a view's result with handle_error registered for
\* Exception: an exception raised by the handler itself is re-raised in debug
\* mode and otherwise wrapped in InternalServerError and handled again.
errorhandler(result, debug) ==
    IF result.kind = "response" THEN result
    ELSE LET first == handle_error(result.exc, debug)
         IN IF first.kind = "response" THEN first
            ELSE IF debug
            THEN [first EXCEPT !.status = 500, !.body = <<"traceback", first.exc.name>>]
            ELSE [handle_error(Exc("InternalServerError", PyInt(500)), debug)
                    EXCEPT !.handler_raised = TRUE]

\* add_cors_headers, after every response the application returns
add_cors_headers(response) ==
    [status |-> response.status, body |-> response.body,
     cors |-> IF response.kind = "response" THEN "*" ELSE "",
     handler_raised |-> response.handler_raised,
     propagated |-> response.kind = "raise"]

\* ------------------------------------------------------------------- views
\* request.get_json(force=True): the raw body is <<"invalid", text>> (no JSON
\* document) or <<"valid", value>> (the document that parses to value).
get_json(raw) ==
    IF raw[1] = "invalid" THEN <<"raise", "BadRequest">> ELSE <<"ok", raw[2]>>

\* dict.get(key, default)
dict_get(data, key, default) ==
    IF key \in DOMAIN data[2] THEN data[2][key] ELSE default

NoCall == <<>>
\* the catalog's outcome is the exception it raises, or Returns
Returns == Exc("", NoAttr)
\* a view's outcome: its result and the catalog calls it made
View(result, calls) == [result |-> result, calls |-> calls]
\* the catalog either returns or raises `outcome`
Catalog(outcome, calls) ==
    IF outcome = Returns
    THEN View(Response(200, <<"payload", calls[1][1]>>), calls)
    ELSE View(Raise(outcome), calls)

search_view(raw, outcome) ==
    LET parsed == get_json(raw)
    IN IF parsed[1] = "raise"
       THEN View(Response(400, build_response(<<"error", "Malformed JSON in request body">>)), NoCall)
       ELSE LET data == parsed[2]
                validation_error == validate_payload(<<>>, data, search_field_types)
            IN IF validation_error[1] = "raise"
               THEN View(Raise(Exc(validation_error[2], NoAttr)), NoCall)
               ELSE IF validation_error[1] = "response"
               THEN View(Response(400, validation_error[2]), NoCall)
               ELSE IF TypeName(data) # "dict"
               THEN View(Raise(Exc("AttributeError", NoAttr)), NoCall)
               ELSE Catalog(outcome, << <<"get_search",
                        [search_key |-> dict_get(data, "search_key", None),
                         platforms |-> dict_get(data, "platforms", PyList(<<>>)),
                         regions |-> dict_get(data, "regions", PyList(<<>>)),
                         rom_id |-> dict_get(data, "rom_id", None),
                         max_results |-> dict_get(data, "max_results", PyInt(DefaultMaxResults)),
                         page |-> dict_get(data, "page", PyInt(DefaultPage))]>> >>)

entry_view(raw, outcome) ==
    LET parsed == get_json(raw)
    IN IF parsed[1] = "raise"
       THEN View(Response(400, build_response(<<"error", "Malformed JSON in request body">>)), NoCall)
       ELSE LET data == parsed[2]
                validation_error ==
                    validate_payload(entry_required_fields, data, entry_field_types)
            IN IF validation_error[1] = "raise"
               THEN View(Raise(Exc(validation_error[2], NoAttr)), NoCall)
               ELSE IF validation_error[1] = "response"
               THEN View(Response(400, validation_error[2]), NoCall)
               ELSE LET slug == getitem(data, "slug")
                    IN IF slug[1] = "raise"
                       THEN View(Raise(Exc(slug[2], NoAttr)), NoCall)
                       ELSE Catalog(outcome, << <<"get_entry",
                                [slug |-> slug[2], random |-> PyBool(FALSE)]>> >>)

random_entry_view(outcome) ==
    Catalog(outcome, << <<"get_entry", [slug |-> None, random |-> PyBool(TRUE)]>> >>)
platforms_view(outcome) == Catalog(outcome, << <<"get_platforms", <<>>>> >>)
regions_view(outcome) == Catalog(outcome, << <<"get_regions", <<>>>> >>)
info_view(outcome) == Catalog(outcome, << <<"get_info", <<>>>> >>)

\* ----------------------------------------------------------------- limiter
Clients == {"10.0.0.1", "10.0.0.2"}
Endpoints == {"search", "entry", "random_entry", "platforms", "regions", "info"}
Scopes == Endpoints \cup {"meta"}

\* key function of every limit: the request's remote address
\* (a key function that tells no client from another)
get_remote_address_shared(client) == "0.0.0.0"
get_remote_address(client) == client

Keys == (Clients \cup {"0.0.0.0"}) \X Scopes
\* a default limit is kept per route, a meta limit under one shared scope
default_key(client, endpoint) == <<get_remote_address(client), endpoint>>
meta_key(client) == <<get_remote_address(client), "meta">>

\* The memory storage: storage[key] is the counter and expirations[key] the
\* ticks it has left; an expired key is dropped, which reads as 0.
Memory(st, ex) == [storage |-> st, expirations |-> ex]

\* the counters after a tick: a key whose window has run out is dropped
storage_never_expires(st, ex) == st
expire(st, ex) == [k \in Keys |-> IF ex[k] > 1 THEN st[k] ELSE 0]

\* MemoryStorage.incr, fixed window: the first hit of a window sets its expiry
incr(mem, key, expiry) ==
    LET n == mem.storage[key] + 1
    IN Memory([mem.storage EXCEPT ![key] = n],
              IF n = 1 THEN [mem.expirations EXCEPT ![key] = expiry]
              ELSE mem.expirations)

\* FixedWindowRateLimiter.test and .hit for a limit of `amount`
\* a test that lets one request too many through
test_off_by_one(mem, key, amount) == mem.storage[key] <= amount
test(mem, key, amount) == mem.storage[key] < amount
hit(mem, key, amount, expiry) ==
    LET after == incr(mem, key, expiry)
    IN [mem |-> after, ok |-> after.storage[key] <= amount]

\* the limiter's before_request check: the meta limits are tested, then the
\* default limit is hit, and a breach of it hits the meta limits
\* a limiter that counts every request against the meta limit
check_request_limit_meta_counts_requests(mem, client, endpoint) ==
    LET m == hit(mem, meta_key(client), MetaLimit, HourTicks)
        h == hit(m.mem, default_key(client, endpoint), DefaultLimit, SecondTicks)
    IN IF ~m.ok THEN [mem |-> m.mem, breached |-> "meta"]
       ELSE IF h.ok THEN [mem |-> h.mem, breached |-> "none"]
       ELSE [mem |-> h.mem, breached |-> "default"]
check_request_limit(mem, client, endpoint) ==
    IF ~test(mem, meta_key(client), MetaLimit)
    THEN [mem |-> mem, breached |-> "meta"]
    ELSE LET h == hit(mem, default_key(client, endpoint), DefaultLimit, SecondTicks)
         IN IF h.ok THEN [mem |-> h.mem, breached |-> "none"]
            ELSE [mem |-> hit(h.mem, meta_key(client), MetaLimit, HourTicks).mem,
                  breached |-> "default"]

\* -------------------------------------------------------------------- state
VARIABLES
    storage,      \* limiter storage: key -> counter
    expirations,  \* limiter storage: key -> ticks left (0: no entry)
    debug,        \* app.debug
    nreq,         \* requests received so far
    req,          \* the last request: client, endpoint, raw body, catalog outcome
    resp,         \* the response it got
    calls,        \* the catalog calls it made
    sent,         \* per client, requests received at each of the last HourTicks ticks
    within_caps,  \* per client: never more than the caps in any window so far
    rejected,     \* per client: some request got 429
    vp            \* validate_payload's arguments and result

vars == <<storage, expirations, debug, nreq, req, resp, calls, sent,
          within_caps, rejected, vp>>

RECURSIVE Sum(_, _)
Sum(s, n) == IF n = 0 THEN 0 ELSE s[n] + Sum(s, n - 1)

NoRequest == [client |-> "", endpoint |-> "", raw |-> <<"invalid", "">>, outcome |-> Returns]
NoResponse == [status |-> 0, body |-> <<"none", "">>, cors |-> "",
               handler_raised |-> FALSE, propagated |-> FALSE]
NoValidation == [required_fields |-> <<>>, data |-> None, field_types |-> <<>>,
                 result |-> <<"pending">>]

InitLimiter ==
    /\ storage = [k \in Keys |-> 0]
    /\ expirations = [k \in Keys |-> 0]
    /\ nreq = 0
    /\ req = NoRequest
    /\ resp = NoResponse
    /\ calls = NoCall
    /\ sent = [c \in Clients |-> [a \in 1..HourTicks |-> 0]]
    /\ within_caps = [c \in Clients |-> TRUE]
    /\ rejected = [c \in Clients |-> FALSE]

\* One request: the limiter first, then the view, the error handlers and
\* the after_request hook.
Serve(client, endpoint, raw, outcome, view) ==
    LET lim == check_request_limit(Memory(storage, expirations), client, endpoint)
        result == IF lim.breached # "none" THEN ratelimit_handler
                  ELSE errorhandler(view.result, debug)
        now == [sent[client] EXCEPT ![1] = @ + 1]
    IN /\ nreq < MaxRequests
       /\ nreq' = nreq + 1
       /\ storage' = lim.mem.storage
       /\ expirations' = lim.mem.expirations
       /\ req' = [client |-> client, endpoint |-> endpoint, raw |-> raw, outcome |-> outcome]
       /\ resp' = add_cors_headers(result)
       /\ calls' = IF lim.breached # "none" THEN NoCall ELSE view.calls
       /\ sent' = [sent EXCEPT ![client] = now]
       /\ within_caps' = [within_caps EXCEPT ![client] =
                @ /\ Sum(now, SecondTicks) <= DefaultLimit /\ Sum(now, HourTicks) <= MetaLimit]
       /\ rejected' = [rejected EXCEPT ![client] = @ \/ result.status = 429]
       /\ UNCHANGED <<debug, vp>>

search(client, raw, outcome) ==
    Serve(client, "search", raw, outcome, search_view(raw, outcome))
entry(client, raw, outcome) ==
    Serve(client, "entry", raw, outcome, entry_view(raw, outcome))
random_entry(client, outcome) ==
    Serve(client, "random_entry", <<"invalid", "">>, outcome, random_entry_view(outcome))
platforms(client, outcome) ==
    Serve(client, "platforms", <<"invalid", "">>, outcome, platforms_view(outcome))
regions(client, outcome) ==
    Serve(client, "regions", <<"invalid", "">>, outcome, regions_view(outcome))
info(client, outcome) ==
    Serve(client, "info", <<"invalid", "">>, outcome, info_view(outcome))

\* One tick of the clock: every window loses a tick and an expired key is dropped.
Tick ==
    /\ expirations' = [k \in Keys |-> IF expirations[k] > 0 THEN expirations[k] - 1 ELSE 0]
    /\ storage' = expire(storage, expirations)
    /\ sent' = [c \in Clients |->
                    [a \in 1..HourTicks |-> IF a = 1 THEN 0 ELSE sent[c][a - 1]]]
    /\ UNCHANGED <<debug, nreq, req, resp, calls, within_caps, rejected, vp>>

\* validate_payload applied to the arguments drawn at the start
validate ==
    /\ vp.result = <<"pending">>
    /\ vp' = [vp EXCEPT !.result =
                validate_payload(vp.required_fields, vp.data, vp.field_types)]
    /\ UNCHANGED <<storage, expirations, debug, nreq, req, resp, calls, sent,
                   within_caps, rejected>>

\* ------------------------------------------------------------ specifications
EmptyDict == PyDict([f \in {} |-> None])
\* The limiter under load: two clients, every route, a body that is no JSON
\* and the empty object, a catalog that returns or fails.
\* search: 200 and 500; entry: 400 for the body and 400 for the missing slug
SearchLoad == {<<"valid", EmptyDict>>} \X {Returns, Exc("RuntimeError", NoAttr)}
EntryLoad == {<<"invalid", "not json">>, <<"valid", EmptyDict>>} \X {Returns}

Init ==
    /\ InitLimiter
    /\ debug = FALSE
    /\ vp = NoValidation

Next ==
    \/ \E c \in Clients, in \in SearchLoad : search(c, in[1], in[2])
    \/ \E c \in Clients, in \in EntryLoad : entry(c, in[1], in[2])
    \/ Tick

\* the clock keeps running
Spec == Init /\ [][Next]_vars /\ WF_vars(Tick)

\* The routes one request at a time: one client, every enumerated body and
\* catalog outcome, production and debug mode.
ApiRequests == 1
ApiClient == "10.0.0.1"
ApiFields == {"search_key", "platforms", "regions", "rom_id", "max_results", "page",
              "slug", "extra"}
Values == {PyStr("zelda"), PyInt(5), PyBool(TRUE), PyList(<<PyStr("nes")>>), None}
Objects(fields, n) ==
    {PyDict(f) : f \in UNION {[S -> Values] :
                        S \in {T \in SUBSET fields : Cardinality(T) <= n}}}
NonObjects == {PyStr("not json"), PyStr("slug"), PyList(<<>>), PyList(<<PyStr("slug")>>),
               PyInt(5), None}
ApiBodies ==
    {<<"invalid", "not json">>, <<"invalid", "{\"slug\": ">>}
        \cup {<<"valid", v>> : v \in NonObjects \cup Objects(ApiFields, MaxKeys)}
ApiOutcomes ==
    {Returns, Exc("RuntimeError", NoAttr), Exc("NotFound", PyInt(404)),
     Exc("InternalServerError", PyInt(500)), Exc("HTTPError", PyInt(599)),
     Exc("SQLAlchemyError", None)}

InitApi ==
    /\ InitLimiter
    /\ debug \in BOOLEAN
    /\ vp = NoValidation

NextApi ==
    \/ nreq < ApiRequests /\ \E raw \in ApiBodies, o \in ApiOutcomes : search(ApiClient, raw, o)
    \/ nreq < ApiRequests /\ \E raw \in ApiBodies, o \in ApiOutcomes : entry(ApiClient, raw, o)
    \/ nreq < ApiRequests /\ \E o \in ApiOutcomes : random_entry(ApiClient, o)
    \/ nreq < ApiRequests /\ \E o \in ApiOutcomes : platforms(ApiClient, o)
    \/ nreq < ApiRequests /\ \E o \in ApiOutcomes : regions(ApiClient, o)
    \/ nreq < ApiRequests /\ \E o \in ApiOutcomes : info(ApiClient, o)
    \/ Tick

SpecApi == InitApi /\ [][NextApi]_vars

\* validate_payload on its own: the arguments are drawn at the start, then the
\* function is applied and the same data is posted to /entry.
ValidateFields == {"slug", "page", "platforms", "extra"}
RECURSIVE Lists(_, _)
Lists(S, n) ==
    IF n = 0 THEN {<<>>}
    ELSE Lists(S, n - 1) \cup {<<x>> \o l : x \in S, l \in {m \in Lists(S, n - 1) : Len(m) = n - 1}}

InitValidate ==
    /\ InitLimiter
    /\ debug = FALSE
    /\ vp \in [required_fields : Lists(ValidateFields, MaxRequired),
                data : NonObjects \cup Objects(ValidateFields, MaxKeys),
                field_types : {<<>>, search_field_types, entry_field_types},
                result : {<<"pending">>}]

NextValidate ==
    \/ validate
    \/ nreq = 0 /\ entry(ApiClient, <<"valid", vp.data>>, Returns)

SpecValidate == InitValidate /\ [][NextValidate]_vars

\* ===================================================================== claims
Requested == nreq > 0
TooManyRequests == <<"error", "Too Many Requests">>
MalformedBody == <<"error", "Malformed JSON in request body">>
FastCount(c, e) == storage[<<c, e>>]
SlowCount(c) == storage[<<c, "meta">>]
\* requests of client c within the last second, the last hour
SentLastSecond(c) == Sum(sent[c], SecondTicks)
SentLastHour(c) == Sum(sent[c], HourTicks)
\* requests of client c on the current tick
SentNow(c) == sent[c][1]

\* C1: a client that never sent more than DefaultLimit requests within any
\* second nor more than MetaLimit within any rolling hour has had none of its
\* requests rejected with 429, whatever the other clients sent.
C1_WithinCapsNeverRejected ==
    \A c \in Clients : within_caps[c] => ~rejected[c]

\* C1's case: a client at its hourly cap is served while another client has
\* been rejected.
C1_Witness ==
    \E c \in Clients, d \in Clients :
        /\ c # d /\ rejected[d] /\ SlowCount(d) >= MetaLimit
        /\ within_caps[c] /\ SentLastHour(c) = MetaLimit
        /\ req.client = c /\ resp.status = 200

Blocked(c, e) == FastCount(c, e) >= DefaultLimit \/ SlowCount(c) >= MetaLimit

AbsentRequired == SelectSeq(vp.required_fields, LAMBDA f : f \notin DOMAIN vp.data[2])
RECURSIVE CommaJoined(_)
CommaJoined(s) ==
    IF Len(s) = 0 THEN ""
    ELSE IF Len(s) = 1 THEN s[1]
    ELSE CommaJoined(SubSeq(s, 1, Len(s) - 1)) \o ", " \o s[Len(s)]

\* C3: when a required field is absent from the body object, validate_payload
\* answers "Missing required fields: " and every absent required field,
\* comma-joined in the order of the required list, and nothing about types;
\* POST /entry with {} gets 400 and "Missing required fields: slug".
C3_MissingFieldsAllInOrder ==
    /\ (vp.result # <<"pending">> /\ TypeName(vp.data) = "dict" /\ AbsentRequired # <<>>)
        => vp.result = <<"response",
                <<"error", "Missing required fields: " \o CommaJoined(AbsentRequired)>>>>
    /\ (Requested /\ req.endpoint = "entry" /\ req.raw = <<"valid", EmptyDict>>)
        => (resp.status = 400 /\ resp.body = <<"error", "Missing required fields: slug">>
            /\ calls = NoCall)

\* C3's case: two required fields are absent, listed in the order required and
\* not in alphabetical order, from a body whose only field has the wrong type.
C3_Witness ==
    /\ vp.required_fields = <<"slug", "page">>
    /\ vp.data = PyDict([f \in {"platforms"} |-> PyInt(5)])
    /\ vp.result = <<"response", <<"error", "Missing required fields: slug, page">>>>
    /\ Requested /\ resp.status = 400

\* the type-checked fields of the last request's route
TypedFields == IF req.endpoint = "search" THEN search_field_types ELSE entry_field_types
Body == req.raw[2]
PostedObject ==
    /\ Requested /\ req.endpoint \in {"search", "entry"}
    /\ req.raw[1] = "valid" /\ TypeName(Body) = "dict"
\* positions of the typed fields present with a value of another JSON type
Mismatches ==
    {i \in 1..Len(TypedFields) :
        /\ TypedFields[i][1] \in DOMAIN Body[2]
        /\ JsonKind(Body[2][TypedFields[i][1]]) # JsonKindOf(TypedFields[i][2])}
FirstMismatch == CHOOSE i \in Mismatches : \A j \in Mismatches : i <= j

\* C4: a POST /search or POST /entry whose body holds a type-checked field with
\* a value of another primitive type ends with 400 and a message naming the
\* first such field and its expected type, and the catalog is not called.
C4_WrongTypeNeverReachesCatalog ==
    (PostedObject /\ Mismatches # {})
    => /\ resp.status = 400
       /\ resp.body = <<"error", "Field \"" \o TypedFields[FirstMismatch][1]
                            \o "\" must be of type " \o TypedFields[FirstMismatch][2]>>
       /\ calls = NoCall

\* C5: a POST /search or POST /entry whose body is no JSON object (text that
\* does not parse, or a document that is a string, a list, a number or null)
\* ends with 400 and "Malformed JSON in request body" and no catalog call.
C5_NoObjectIsMalformed ==
    (Requested /\ req.endpoint \in {"search", "entry"}
        /\ (req.raw[1] = "invalid" \/ TypeName(Body) # "dict"))
    => (resp.status = 400 /\ resp.body = MalformedBody /\ calls = NoCall)

\* the arguments the claim expects get_search to receive
FieldOr(field, default) ==
    IF TypeName(Body) = "dict" /\ field \in DOMAIN Body[2] THEN Body[2][field] ELSE default
ExpectedSearch ==
    [search_key |-> FieldOr("search_key", None),
     platforms |-> FieldOr("platforms", PyList(<<>>)),
     regions |-> FieldOr("regions", PyList(<<>>)),
     rom_id |-> FieldOr("rom_id", None),
     max_results |-> FieldOr("max_results", PyInt(100)),
     page |-> FieldOr("page", PyInt(1))]

\* C6: for every POST /search body that passes validation the catalog search is
\* called exactly once, with the fields of the body unchanged and the absent
\* ones at their defaults (platforms [], regions [], max_results 100, page 1).
C6_ValidatedSearchIsForwarded ==
    (Requested /\ req.endpoint = "search" /\ req.raw[1] = "valid"
        /\ validate_payload(<<>>, Body, search_field_types) = <<"None">>)
    => calls = << <<"get_search", ExpectedSearch>> >>

\* C7: in production a catalog failure gets one response, with the failure's
\* declared status if it has one and 500 otherwise and the standard phrase of
\* that status as its error, and handle_error does not fail building it.
C7_FailureNormalized ==
    (Requested /\ ~debug /\ calls # NoCall /\ req.outcome # Returns)
    => LET code == req.outcome.code
           status == IF TypeName(code) = "int" THEN code[2] ELSE 500
       IN /\ ~resp.handler_raised
          /\ resp.status = status
          /\ status \in DOMAIN HTTPStatusPhrase
                => resp.body = <<"error", HTTPStatusPhrase[status]>>

====
